---- MODULE Spec2Model ----
(***************************************************************************)
(* Model of with-cell (src/src/lib.rs): WithCell<T>, a wrapper around      *)
(* core::cell::Cell<T> whose accessors take the value out of the cell,     *)
(* leave T::default() in its place, run a caller-supplied closure and put  *)
(* the value back.  T is instantiated with String over a two-letter        *)
(* alphabet, as in the doctest of WithCell::map.  A call is two steps, the *)
(* take (…Call) and the write-back (…Return); between them the closure is  *)
(* running and may call back into any cell, return, or panic.              *)
(***************************************************************************)
EXTENDS Integers, Sequences, FiniteSets, TLC

\* ---------------------------------------------------------------- bounds
\* Cells a program builds, calls nested in one another, maps in one chain.
NumCells == 2
MaxDepth == 2
MaxChain == 2

Chars == {"a", "b"}
Cells == 1..NumCells

\* The values of T (String): all strings of at most MaxLen letters.
T == {<<>>, <<"a">>, <<"b">>, <<"a", "b">>}

\* <String as Default>::default(), the stub left in the cell by Cell::take.
Default == <<>>

\* <String as fmt::Debug>::fmt writes the string between double quotes.
DebugT(v) == <<"q">> \o v \o <<"q">>

\* ------------------------------------------------------------- closures
\* The values v2 of the closures |x| *x = v2.
AssignVals == {v \in T : Len(v) <= 1}

\* Closures FnOnce(&mut T) -> R handed to with.
WithFs ==
  {[k |-> "clone", a |-> <<>>]}
    \cup {[k |-> "push", a |-> <<ch>>] : ch \in Chars}
    \cup {[k |-> "assign", a |-> v2] : v2 \in AssignVals}

\* Closures FnOnce(&mut T) handed to inspect (they return unit).
InspectFs == {f \in WithFs : f.k # "clone"}

\* Closures FnOnce(T) -> T handed to map.
MapFs ==
  {[k |-> "id", a |-> <<>>]}
    \cup {[k |-> "append", a |-> <<ch>>] : ch \in Chars}

\* |x| x.fmt(f): T's formatter, whose sink accepts the text or fails.
FmtFs == {[k |-> x, a |-> <<>>] : x \in {"fmtOk", "fmtErr"}}

\* |x| x.clone()
CloneF == [k |-> "clone", a |-> <<>>]

\* A closure that grows the string is only called where the result fits.
Applicable(f, v) == (f.k \in {"push", "append"}) => (v \o f.a \in T)

\* What a closure leaves in the T it was lent through &mut T.
Mut(f, v) ==
  CASE f.k = "push" -> v \o f.a
    [] f.k = "assign" -> f.a
    [] OTHER -> v

\* Whether a closure returns a T (x.clone()) or unit.
RetKind(f) == IF f.k = "clone" THEN "val" ELSE "unit"

\* The T a closure returns (Default stands for unit).
Ret(f, v) == IF f.k = "clone" THEN v ELSE Default

\* The T a closure FnOnce(T) -> T returns.
MapF(f, v) ==
  CASE f.k = "append" -> v \o f.a
    [] OTHER -> v

\* The text T's formatter hands to its sink, and its fmt::Result.
TFmt(f, v) ==
  [out |-> IF f.k = "fmtOk" THEN DebugT(v) ELSE <<>>, ok |-> (f.k = "fmtOk")]

\* g(f(v)) for a chain of map closures <<f, g, ...>>.
RECURSIVE ApplyAll(_, _)
ApplyAll(fs, v) ==
  IF fs = <<>> THEN v ELSE ApplyAll(Tail(fs), MapF(Head(fs), v))

\* ------------------------------------------------- core::cell::Cell<T>
\* A cell holds a value of T; `by` records which call put it there: "set"
\* (Cell::new, Cell::set, Cell::replace), "stub" (the Cell::take inside with
\* and map), "user" (a Cell::take through Deref) or "lost" (a stub whose
\* call was left by a panic).

\* Cell::new
CellNew(v) == [val |-> v, by |-> "set"]

\* Mutant of Cell::take: hands out the stub and keeps nothing of the value.
CellTakeStubbed(s, c, who) ==
  [val |-> Default, slot |-> [s EXCEPT ![c] = [val |-> Default, by |-> who]]]

\* Mutant of Cell::take: reads the contents and leaves them in the cell.
CellTakePeek(s, c, who) == [val |-> s[c].val, slot |-> s]

\* Mutant of Cell::take: leaves the cell empty, as Option::take would.
CellTakeEmpty(s, c, who) ==
  [val |-> s[c].val,
   slot |-> [s EXCEPT ![c] = [val |-> <<"none">>, by |-> who]]]

\* Cell::take: returns the contents and leaves Default::default().
CellTake(s, c, who) ==
  [val |-> s[c].val, slot |-> [s EXCEPT ![c] = [val |-> Default, by |-> who]]]

\* Mutant of Cell::set: the write-back is forgotten.
CellSetSkip(s, c, v) == s

\* Mutant of Cell::set: the write-back keeps a value written meanwhile.
CellSetIfStub(s, c, v) ==
  IF s[c].by = "stub" THEN [s EXCEPT ![c] = [val |-> v, by |-> "set"]] ELSE s

\* Cell::set: overwrites the contents, dropping the old ones.
CellSet(s, c, v) == [s EXCEPT ![c] = [val |-> v, by |-> "set"]]

\* Cell::replace: overwrites the contents and returns the old ones.
CellReplace(s, c, v) ==
  [val |-> s[c].val, slot |-> [s EXCEPT ![c] = [val |-> v, by |-> "set"]]]

\* ---------------------------------------------------------------- state
VARIABLES
  slot,       \* slot[c]: contents of the Cell<T> inside WithCell c
  stack,      \* the closures that are running, outermost first
  unwinding,  \* a panic is propagating
  last        \* what the last step did and returned

vars == <<slot, stack, unwinding, last>>

NoChain == [v0 |-> <<>>, fs |-> <<>>]

NoEv ==
  [kind |-> "init", op |-> "new", c |-> 1, f |-> CloneF, pre |-> <<>>,
   dirty |-> FALSE, rk |-> "unit", rv |-> <<>>, rc |-> 0, out |-> <<>>,
   ok |-> TRUE, chain |-> NoChain]

Top == stack[Len(stack)]

Pop == SubSeq(stack, 1, Len(stack) - 1)

\* A write to cell c is seen by every running closure that was lent c's value.
MarkDirty(stk, c) ==
  [i \in DOMAIN stk |->
     IF stk[i].c = c THEN [stk[i] EXCEPT !.dirty = TRUE] ELSE stk[i]]

Init ==
  /\ \E v \in T : slot = (1 :> CellNew(v))
  /\ stack = <<>>
  /\ unwinding = FALSE
  /\ last = [NoEv EXCEPT !.pre = slot[1].val]


\* ------------------------------------------------------------ WithCell
\* WithCell::new / From<T>::from: a fresh container holding v.
FreshCell(s) ==
  CHOOSE n \in Cells :
    n \notin DOMAIN s /\ \A m \in Cells : m < n => m \in DOMAIN s

\* Mutant of From: the new container is built from the stub.
FromStub(s, x) == s @@ (FreshCell(s) :> CellNew(Default))

\* From<T> for WithCell<T>: Self(x.into()).
From(s, x) == s @@ (FreshCell(s) :> CellNew(x))

\* Clone calls that have taken their value and not yet built the new cell.
PendingClones == Cardinality({i \in DOMAIN stack : stack[i].op = "clone"})

\* `self.0.take()` followed by the call of the closure: the first half of
\* with and map (inspect, fmt and clone go through with).
Enter(op, c, ch) ==
  /\ ~unwinding
  /\ Len(stack) < MaxDepth
  /\ c \in DOMAIN slot
  /\ LET t == CellTake(slot, c, "stub") IN
       /\ slot' = t.slot
       /\ stack' = Append(stack,
            [op |-> op, c |-> c, v |-> t.val, pre |-> slot[c].val,
             dirty |-> FALSE, chain |-> ch])
  /\ last' = [NoEv EXCEPT !.kind = "call", !.op = op, !.c = c,
                          !.pre = slot[c].val]
  /\ UNCHANGED unwinding

\* `self.0.set(v)` after the closure returned: the second half of with/map.
\* f is what the closure did, nv the value written back, ev the rest of what
\* the call returns.
Exit(f, nv, ev) ==
  /\ Applicable(f, Top.v)
  /\ slot' = CellSet(slot, Top.c, nv)
  /\ stack' = MarkDirty(Pop, Top.c)
  /\ last' = [ev EXCEPT !.kind = "return", !.op = Top.op, !.c = Top.c,
                        !.f = f, !.pre = Top.pre, !.dirty = Top.dirty]
  /\ UNCHANGED unwinding

Running(op) == ~unwinding /\ stack # <<>> /\ Top.op = op

\* with, up to the call `(f)(&mut v)`.
WithCall(c) == Enter("with", c, NoChain)

\* with, from the return of the closure f.
WithReturn(f) ==
  /\ Running("with")
  /\ Exit(f, Mut(f, Top.v),
          [NoEv EXCEPT !.rk = RetKind(f), !.rv = Ret(f, Top.v)])

InspectCall(c) == Enter("inspect", c, NoChain)

\* Mutant of inspect: the closure runs on the value, which is not put back.
InspectReturnNoWriteBack(f) ==
  /\ Running("inspect")
  /\ Applicable(f, Top.v)
  /\ stack' = Pop
  /\ last' = [NoEv EXCEPT !.kind = "return", !.op = "inspect", !.c = Top.c,
                          !.f = f, !.pre = Top.pre, !.dirty = Top.dirty,
                          !.rk = "cell", !.rc = Top.c]
  /\ UNCHANGED <<slot, unwinding>>

\* inspect: `self.with(f); self`
InspectReturn(f) ==
  /\ Running("inspect")
  /\ Exit(f, Mut(f, Top.v), [NoEv EXCEPT !.rk = "cell", !.rc = Top.c])

\* A map called on the reference the previous map returned continues the
\* chain of that map; any other map starts a chain at the current contents.
ChainAt(c) ==
  IF /\ stack = <<>>
     /\ last.kind = "return" /\ last.op = "map" /\ last.rc = c
     /\ last.chain.fs # <<>> /\ Len(last.chain.fs) < MaxChain
  THEN last.chain
  ELSE [v0 |-> slot[c].val, fs |-> <<>>]

MapCall(c) == Enter("map", c, ChainAt(c))

\* map: `self.0.set((f)(self.0.take())); self`
MapReturn(f) ==
  /\ Running("map")
  /\ Exit(f, MapF(f, Top.v),
          [NoEv EXCEPT !.rk = "cell", !.rc = Top.c,
                       !.chain = IF Top.dirty THEN NoChain
                                 ELSE [v0 |-> Top.chain.v0,
                                       fs |-> Append(Top.chain.fs, f)]])

\* Debug::fmt: `self.with(|x| x.fmt(f))`
FmtCall(c) == Enter("fmt", c, NoChain)

FmtReturn(f) ==
  /\ Running("fmt")
  /\ Exit(f, Mut(f, Top.v),
          [NoEv EXCEPT !.rk = "fmt", !.out = TFmt(f, Top.v).out,
                       !.ok = TFmt(f, Top.v).ok])

\* Clone::clone: `self.with(|x| x.clone()).into()`
CloneCall(c) ==
  /\ Cardinality(DOMAIN slot) + PendingClones < NumCells
  /\ Enter("clone", c, NoChain)

CloneReturn ==
  /\ Running("clone")
  /\ LET s1 == CellSet(slot, Top.c, Mut(CloneF, Top.v))
         n == FreshCell(slot)
     IN /\ slot' = From(s1, Ret(CloneF, Top.v))
        /\ stack' = MarkDirty(Pop, Top.c)
        /\ last' = [NoEv EXCEPT !.kind = "return", !.op = "clone",
                                !.c = Top.c, !.f = CloneF, !.pre = Top.pre,
                                !.dirty = Top.dirty, !.rk = "cell", !.rc = n]
  /\ UNCHANGED unwinding

\* WithCell::new(value), called by the program or by a running closure.
New(v) ==
  /\ ~unwinding
  /\ Cardinality(DOMAIN slot) + PendingClones < NumCells
  /\ LET n == FreshCell(slot) IN
       /\ slot' = slot @@ (n :> CellNew(v))
       /\ last' = [NoEv EXCEPT !.kind = "new", !.c = n, !.pre = v,
                               !.rk = "cell", !.rc = n]
  /\ UNCHANGED <<stack, unwinding>>

\* The closure on top of the stack panics: its frame is left without the
\* write-back, and the value it was lent is dropped.
Drop(kind) ==
  /\ stack # <<>>
  /\ stack' = Pop
  /\ slot' = [slot EXCEPT ![Top.c].by = IF @ = "stub" THEN "lost" ELSE @]
  /\ last' = [NoEv EXCEPT !.kind = kind, !.op = Top.op, !.c = Top.c,
                          !.pre = Top.pre, !.dirty = Top.dirty]
  /\ unwinding' = TRUE

Panic == ~unwinding /\ Drop("panic")

\* The panic leaves the next enclosing call of with/map the same way.
Unwind == unwinding /\ Drop("unwind")

\* The panic is caught, by an enclosing closure or by the program.
Catch ==
  /\ unwinding
  /\ unwinding' = FALSE
  /\ last' = [last EXCEPT !.kind = "caught"]
  /\ UNCHANGED <<slot, stack>>

\* Deref to Cell<T>: Cell::set, Cell::replace and Cell::take on the inner
\* cell, called by the program or by a running closure.
RawSet(c, v) ==
  /\ ~unwinding
  /\ c \in DOMAIN slot
  /\ slot' = CellSet(slot, c, v)
  /\ stack' = MarkDirty(stack, c)
  /\ last' = [NoEv EXCEPT !.kind = "raw", !.op = "set", !.c = c]
  /\ UNCHANGED unwinding

RawReplace(c, v) ==
  /\ ~unwinding
  /\ c \in DOMAIN slot
  /\ LET r == CellReplace(slot, c, v) IN
       /\ slot' = r.slot
       /\ last' = [NoEv EXCEPT !.kind = "raw", !.op = "replace", !.c = c,
                               !.rk = "val", !.rv = r.val]
  /\ stack' = MarkDirty(stack, c)
  /\ UNCHANGED unwinding

RawTake(c) ==
  /\ ~unwinding
  /\ c \in DOMAIN slot
  /\ LET t == CellTake(slot, c, "user") IN
       /\ slot' = t.slot
       /\ last' = [NoEv EXCEPT !.kind = "raw", !.op = "take", !.c = c,
                               !.rk = "val", !.rv = t.val]
  /\ UNCHANGED <<stack, unwinding>>

Next ==
  \/ \E c \in Cells : WithCall(c)
  \/ \E f \in WithFs : WithReturn(f)
  \/ \E c \in Cells : InspectCall(c)
  \/ \E f \in InspectFs : InspectReturn(f)
  \/ \E c \in Cells : MapCall(c)
  \/ \E f \in MapFs : MapReturn(f)
  \/ \E c \in Cells : FmtCall(c)
  \/ \E f \in FmtFs : FmtReturn(f)
  \/ Panic
  \/ Unwind
  \/ Catch
  \/ \E c \in Cells, v \in T : RawSet(c, v)
  \/ \E c \in Cells, v \in T : RawReplace(c, v)
  \/ \E c \in Cells : RawTake(c)

\* A program that owns one WithCell and calls with, inspect, map, fmt and
\* the methods of the inner Cell on it, from the program and from closures.
Spec == Init /\ [][Next]_vars

\* A program that also builds further cells, with new and with clone.
NextFull ==
  \/ Next
  \/ \E c \in Cells : CloneCall(c)
  \/ CloneReturn
  \/ \E v \in T : New(v)

SpecFull == Init /\ [][NextFull]_vars

TypeOK ==
  /\ DOMAIN slot \subseteq Cells
  /\ Len(stack) <= MaxDepth


\* ---------------------------------------------------------- properties
\* No closure is running and no panic is propagating: the program is between
\* two top-level operations.
Quiescent == stack = <<>> /\ ~unwinding

Returned(op) == last.kind = "return" /\ last.op = op

Failed == last.kind \in {"panic", "unwind", "caught"}

\* C1: with(f), for a closure f that returns normally and does not write the
\* cell reentrantly, returns what f returned and leaves the cell holding the
\* value as f mutated it: |x| x.clone() returns v and leaves v, |x| *x = v2
\* leaves v2 whatever v was.
C1_WithResult ==
  (Returned("with") /\ ~last.dirty) =>
    /\ slot[last.c].val = Mut(last.f, last.pre)
    /\ last.rk = RetKind(last.f)
    /\ last.rv = Ret(last.f, last.pre)
    /\ last.f.k = "clone" => (slot[last.c].val = last.pre /\ last.rv = last.pre)
    /\ last.f.k = "assign" => slot[last.c].val = last.f.a
    /\ last.f.k = "push" => slot[last.c].val = last.pre \o last.f.a

C1_Witness ==
  /\ Returned("with") /\ ~last.dirty
  /\ last.f.k = "assign" /\ last.pre # Default /\ last.f.a # last.pre
  /\ last.f.a # Default /\ slot[last.c].val = last.f.a

\* C2: map(f), for a pure f, leaves the cell holding f(v) and returns the
\* cell it was called on; a chain map(f).map(g) on the returned reference
\* leaves g(f(v)).
C2_MapChain ==
  (Returned("map") /\ ~last.dirty) =>
    /\ last.rk = "cell" /\ last.rc = last.c
    /\ slot[last.c].val = MapF(last.f, last.pre)
    /\ last.chain.fs # <<>>
    /\ slot[last.c].val = ApplyAll(last.chain.fs, last.chain.v0)

C2_Witness ==
  /\ Returned("map") /\ ~last.dirty
  /\ last.chain.v0 = <<>>
  /\ last.chain.fs = <<[k |-> "append", a |-> <<"a">>],
                       [k |-> "append", a |-> <<"b">>]>>
  /\ slot[last.c].val = <<"a", "b">>

\* C3 as stated: after the closure of with, inspect or map has failed, the
\* cell holds T's default value.
C3_Original ==
  (Failed /\ last.op \in {"with", "inspect", "map"}) =>
    slot[last.c].val = Default

\* C3 as amended: the step that leaves a call because its closure failed
\* writes no value to any cell, so the cell keeps what it held when the
\* closure failed: T's default value unless the cell was written
\* reentrantly while the closure ran.  The value lent to the closure is
\* not put back.
C3_FailureLeavesSlot ==
  [][(last'.kind \in {"panic", "unwind"} /\ Len(stack') < Len(stack)) =>
       /\ DOMAIN slot' = DOMAIN slot
       /\ \A c \in DOMAIN slot : slot'[c].val = slot[c].val
       /\ ~last'.dirty => slot'[last'.c].val = Default]_vars

C3_Witness ==
  /\ Quiescent /\ last.kind = "caught" /\ ~last.dirty
  /\ last.op \in {"with", "inspect", "map"}
  /\ last.pre # Default /\ slot[last.c].val = Default

\* What the reentrant reads of cell stack[i].c have observed: the value
\* taken by every call nested in closure i on the same cell, and the value a
\* Cell::take through Deref has just returned.
ReadsDefault(i) ==
  /\ \A j \in DOMAIN stack :
       (j > i /\ stack[j].c = stack[i].c) => stack[j].v = Default
  /\ (last.kind = "raw" /\ last.op = "take" /\ last.c = stack[i].c) =>
       last.rv = Default

\* C4 as stated: while a closure is running on a cell, every reentrant read
\* of that cell observes T's default value.
C4_Original == ~unwinding => \A i \in DOMAIN stack : ReadsDefault(i)

\* C4 as amended: while a closure is running on a cell and the cell has not
\* been written reentrantly since the closure was called, every reentrant
\* read of that cell observes T's default value, which is what the cell
\* holds, and not the value lent.
C4_ReentrantReadsStub ==
  ~unwinding =>
    \A i \in DOMAIN stack :
      ~stack[i].dirty => (slot[stack[i].c].val = Default /\ ReadsDefault(i))

C4_Witness ==
  /\ Len(stack) = 2 /\ ~unwinding
  /\ stack[1].c = stack[2].c /\ ~stack[1].dirty
  /\ stack[1].v # Default /\ stack[2].v = Default

\* C5: in every reachable state every cell holds exactly one value of T,
\* the real one or the default stub; no cell is ever empty.
C5_SlotHoldsT ==
  /\ DOMAIN slot # {}
  /\ \A c \in DOMAIN slot : slot[c].val \in T
  /\ \A i \in DOMAIN stack : stack[i].c \in DOMAIN slot /\ stack[i].v \in T

C5_Witness ==
  /\ Quiescent /\ last.kind = "caught"
  /\ last.dirty /\ slot[last.c].val \in T \ {Default}

\* C6: inspect(f) changes the cell as with(f) does, whether f returns, fails
\* or writes the cell reentrantly, returns no result of f, and returns the
\* cell it was called on.
C6_InspectAsWith ==
  /\ Returned("inspect") =>
       /\ last.rk = "cell" /\ last.rc = last.c /\ last.rv = Default
       /\ slot[last.c].val = Mut(last.f, last.pre)
       /\ last.f.k = "assign" => slot[last.c].val = last.f.a
       /\ last.f.k = "push" => slot[last.c].val = last.pre \o last.f.a
  /\ (Failed /\ last.op = "inspect" /\ ~last.dirty) =>
       slot[last.c].val = Default

C6_Witness ==
  /\ Returned("inspect") /\ last.rc = last.c
  /\ last.f.k = "push" /\ last.pre # Default
  /\ slot[last.c].val = last.pre \o last.f.a

\* C7: clone() builds a new cell, distinct from every existing one, holding
\* a value equal to the one the original held, the original holds that value
\* again when clone returns, and no step changes a cell other than the one
\* it is called on.
C7_CloneIndependent ==
  [][/\ (Running("clone") /\ ~unwinding' /\ Len(stack') < Len(stack)) =>
          /\ last'.rc \notin DOMAIN slot
          /\ last'.rc \in DOMAIN slot'
          /\ slot'[last'.rc].val = Top.pre
          /\ slot'[Top.c].val = Top.pre
     /\ \A d \in DOMAIN slot :
          /\ d \in DOMAIN slot'
          /\ slot'[d] # slot[d] => d = last'.c]_vars

C7_Witness ==
  /\ Returned("clone") /\ last.rc # last.c /\ last.pre # Default
  /\ slot[last.rc].val = last.pre /\ slot[last.c].val = last.pre

\* C8: Debug-formatting a cell holding v writes the text and returns the
\* fmt::Result that formatting v directly does, and leaves v in the cell.
C8_DebugAsValue ==
  Returned("fmt") =>
    /\ last.rk = "fmt"
    /\ last.out = TFmt(last.f, last.pre).out
    /\ last.ok = TFmt(last.f, last.pre).ok
    /\ last.ok => last.out = DebugT(last.pre)
    /\ slot[last.c].val = last.pre

C8_Witness ==
  /\ Returned("fmt") /\ last.pre = <<"a", "b">>
  /\ last.out = <<"q", "a", "b", "q">> /\ slot[last.c].val = last.pre

C8_WitnessErr == Returned("fmt") /\ ~last.ok /\ last.pre # Default

\* C9 as stated: between top-level operations no cell holds a stub that
\* with, inspect or map put there.
C9_Original ==
  Quiescent => \A c \in DOMAIN slot : slot[c].by \notin {"stub", "lost"}

\* C9 as amended: between top-level operations a cell holds a stub put
\* there by with, inspect or map only if a closure called on that cell has
\* failed.
C9_StubOnlyAfterFailure ==
  Quiescent => \A c \in DOMAIN slot : slot[c].by # "stub"

C9_Witness ==
  /\ Quiescent /\ last.kind = "return" /\ last.dirty
  /\ slot[last.c].by = "set" /\ slot[last.c].val # Default

\* C10: the write-back of with and map overwrites whatever the cell holds
\* when the closure returns: a value put into the cell while the closure ran
\* is discarded, at any nesting depth.
C10_WriteBackWins ==
  (last.kind = "return" /\ last.op \in {"with", "inspect", "map"}) =>
    slot[last.c].val =
      IF last.op = "map" THEN MapF(last.f, last.pre)
      ELSE Mut(last.f, last.pre)

C10_Witness ==
  /\ Quiescent /\ Returned("map") /\ last.dirty
  /\ last.f.k = "append" /\ last.pre # Default
  /\ slot[last.c].val = last.pre \o last.f.a

====
